---- MODULE Spec2Model ----
(***************************************************************************)
(* Model of the LLMCodeStability pipeline:                                 *)
(*   - scripts/unit_test.py: the verification batch (main), the supervisor *)
(*     (run_unittest) and the isolated process (_worker);                  *)
(*   - scripts/codegenerate_parallel-Codecontest-2.py: the resumable,      *)
(*     multi-threaded generation run (main / process_one_completion).      *)
(***************************************************************************)
EXTENDS Integers, Sequences, FiniteSets, TLC

(***************************************************************************)
(* Bounds of the model.                                                    *)
(***************************************************************************)
MaxTests == 2        \* most public tests of one verification task
MaxTasks == 2        \* most tasks loaded by one verification batch

Null == <<"null">>   \* JSON null / Python None, where a text is expected
Omitted == "omitted" \* a record field that is not set

(***************************************************************************)
(* str.strip(): drop leading and trailing whitespace.                      *)
(***************************************************************************)
RECURSIVE LStrip(_)
LStrip(s) == IF s = <<>> THEN <<>>
             ELSE IF Head(s) = " " THEN LStrip(Tail(s)) ELSE s

RECURSIVE RStrip(_)
RStrip(s) == IF s = <<>> THEN <<>>
             ELSE IF s[Len(s)] = " " THEN RStrip(SubSeq(s, 1, Len(s) - 1)) ELSE s

Strip(s) == RStrip(LStrip(s))

(***************************************************************************)
(* Verification tasks, as loaded by load_jsonl.  Texts are sequences of    *)
(* characters; " " stands for any whitespace character.                    *)
(***************************************************************************)
CodeTexts == {<<>>, <<" ">>, <<" ", " ">>, <<"a">>, <<" ", "a", " ">>}
GenSolutions == CodeTexts \cup {Null}
Expected == {<<"a", " ">>, <<"b">>}             \* expected outputs of test cases
SolveResults == {<<"a">>, <<" ", "b">>, <<"c">>} \* values solve may return
\* a test case that is no {input, output} object (a string, a number, null)
NotADict == [isdict |-> FALSE, output |-> <<>>]
Cases == [isdict : {TRUE}, output : Expected] \cup {NotADict}
\* public_tests that is no list of cases: null, or the {input: [..], output: [..]} form
NotAList == [islist |-> FALSE, cases |-> <<>>]
TestLists == [islist : {TRUE}, cases : UNION {[1..k -> Cases] : k \in 0..MaxTests}]
             \cup {NotAList}
Problems == [generated_solution : GenSolutions, public_tests : TestLists]
NoProblem == [generated_solution |-> Null, public_tests |-> NotAList]

VARIABLES
    vpc,          \* unit_test.main: "start", "loop", "run", "done", "raised"
    nloaded,      \* number of problems load_jsonl returned
    todo,         \* problems the loop has not yet taken
    problem,      \* the problem run_unittest was called with
    out_f,        \* the records written to output_file, in order
    spc,          \* run_unittest: "none", "join", "check", "term_join", "recv", "ret"
    result,       \* the record run_unittest builds
    expired,      \* p.join(timeout) returned because the timeout ran out
    termSent,     \* p.terminate() was called
    pipes,        \* multiprocessing.Pipe() calls of the current task
    spawned,      \* Process.start() calls of the current task
    cpc,          \* _worker: "none", "exec", "tests", "send_blocked", "sent", "exited"
    cfault,       \* what was raised in the child's try block: "none", "exception" (by
                  \* exec), "exit_request" (by exec), "outcome" (while the outcome
                  \* message was built or sent)
    cend,         \* how the process ended: "none", "closed" (its finally clause ran),
                  \* "died" (ended from inside the code), "terminated" (by SIGTERM)
    ignoresTerm,  \* the isolated code has replaced the SIGTERM disposition
    cresult,      \* unittest result: outcome of each test run so far
    cstderr,      \* content of the child's sys.stderr buffer
    pipe,         \* content of the result channel
    nsent         \* messages the child has put into the channel

vvars == <<vpc, nloaded, todo, problem, out_f, spc, result, expired, termSent,
           pipes, spawned, cpc, cfault, cend, ignoresTerm, cresult, cstderr, pipe,
           nsent>>

(***************************************************************************)
(* Generation run (codegenerate_parallel-Codecontest-2.py).                *)
(***************************************************************************)
ComplPerProblem == 2   \* completions_per_problem
NumThreads == 2        \* num_threads: max_workers of the pool
MaxRuns == 2           \* runs of the script on the same inputs and output files
MaxWaves == 2          \* most (model, temperature) pairs of one run

ProblemSeq == <<"p1">>   \* the problem_id values load_dataset returned, in order
ProblemIds == {ProblemSeq[n] : n \in 1..Len(ProblemSeq)}
Shapes == {"ok", "bad_description", "bad_tests"}
Keys == ProblemIds \X (0..(ComplPerProblem - 1))

VARIABLES
    gpc,              \* main: "idle", "start", "scan", "pool", "between", "aborting",
                      \* "done", "raised", "scan_raised", "killed"
    runs,             \* runs started so far
    shape,            \* per problem: "ok", or description / tests of the wrong type
    withoutexemples,  \* the flag of main
    nwaves,           \* number of (model, temperature) pairs: the waves of a run
    wave,             \* the wave main is in: what output_file, model, temperature name
    files,            \* per wave its output file: finished lines and unterminated tail
    ledger,           \* completed_problem_keys
    jobs,             \* the jobs given to executor.map, in order
    job,              \* per job: where its future / worker thread stands
    lock              \* the job whose thread holds the module's lock, or 0

gvars == <<gpc, runs, shape, withoutexemples, nwaves, wave, files, ledger, jobs, job,
           lock>>

\* line 164: the file output_file names
gfile == files[wave]

(***************************************************************************)
(* The loaders of the task files: load_jsonl (unit_test.py) and            *)
(* load_dataset (codegenerate_parallel-Codecontest-2.py).  A line of the   *)
(* input file is blank, no valid JSON, an object without problem_id, or a  *)
(* task with problem_id "p1" or "p2".                                      *)
(***************************************************************************)
MaxLines == 3          \* most lines of a task file
LineKinds == {"blank", "bad_json", "no_id", "p1", "p2"}

VARIABLES
    loader,           \* the loader that runs: "none", "load_jsonl", "load_dataset"
    infile,           \* the lines of the task file
    lpc,              \* "idle", "loading", "returned", "raised"
    lineno,           \* lines read so far
    items,            \* items / problems: what the loader has kept, in order
    seen_ids          \* seen_ids of load_dataset

lvars == <<loader, infile, lpc, lineno, items, seen_ids>>

vars == <<vvars, gvars, lvars>>

NoResult == [category |-> Omitted, error |-> Omitted, stdout |-> Omitted]

\* Process.is_alive()
is_alive == cpc \in {"exec", "tests", "send_blocked", "sent"}

\* a blank test that forgets strip()
IsBlank_nostrip(gs) == gs = <<>>

\* line 65: not generated_solution.strip()
IsBlank(gs) == Strip(gs) = <<>>

\* lines 82-84: enumerate(public_tests) with case.get(...) on every case
TestsWellFormed(tests) == /\ tests.islist
                          /\ \A i \in 1..Len(tests.cases) : tests.cases[i].isdict

\* lines 81-100: one test method per public test, in a class body
SynthTests(tests) == [i \in 1..Len(tests.cases) |-> [expected |-> tests.cases[i].output]]

\* lines 96-100: with no test method the class statement has no body, and the
\* combined source does not compile
ClassBodyEmpty(ms) == Len(ms) = 0

\* the test methods of the task the child was started for
methods == SynthTests(problem.public_tests)

\* line 92: assertEqual(str(result).strip(), expected.strip())
AssertionPasses(r, expected) == Strip(r) = Strip(expected)

\* line 37: result.wasSuccessful()
wasSuccessful(res) == \A i \in 1..Len(res) : res[i] = "ok"

\* what the runner wrote to its stream
Report(res) == IF \E i \in 1..Len(res) : res[i] = "fail" THEN "report_output_mismatch"
               ELSE IF \E i \in 1..Len(res) : res[i] = "error" THEN "report_test_error"
               ELSE "report_ok"

\* line 34: TextTestRunner(stream=sys.stdout)
RunnerStream == "stdout"

\* sys.stdout.getvalue() and sys.stderr.getvalue() after the run
StdoutValue(res) == IF RunnerStream = "stdout" THEN Report(res) ELSE ""
StderrValue(res, err) == IF err # "" THEN err
                         ELSE IF RunnerStream = "stderr" THEN Report(res) ELSE ""

\* lines 37-44: the message for the outcome of the tests
OutcomeMessage(res, err) ==
    IF wasSuccessful(res)
    THEN [category |-> "success", error |-> Omitted, stdout |-> StdoutValue(res)]
    ELSE [category |-> "test_failure",
          error |-> IF StderrValue(res, err) # "" THEN StderrValue(res, err)
                    ELSE "Test failed",
          stdout |-> StdoutValue(res)]

\* lines 46-49
ErrorMessage == [category |-> "execution_error", error |-> "traceback", stdout |-> Omitted]

\* lines 66-78
EmptyRecord == [category |-> "empty_code_extracted", error |-> "No code provided",
                stdout |-> Omitted]

\* lines 125-128
TimeoutRecord == [category |-> "timeout", error |-> "Execution timed out",
                  stdout |-> Omitted]

\* lines 132-135
NoResponseRecord == [category |-> "no_response", error |-> "No response received",
                     stdout |-> Omitted]

(***************************************************************************)
(* unit_test.main and run_unittest (the supervisor).                       *)
(***************************************************************************)
VInit ==
    /\ vpc = "start"
    /\ nloaded \in 0..MaxTasks
    /\ todo = 0
    /\ problem = NoProblem
    /\ out_f = <<>>
    /\ spc = "none"
    /\ result = NoResult
    /\ expired = FALSE
    /\ termSent = FALSE
    /\ pipes = 0
    /\ spawned = 0
    /\ cpc = "none"
    /\ cfault = "none"
    /\ cend = "none"
    /\ ignoresTerm = FALSE
    /\ cresult = <<>>
    /\ cstderr = ""
    /\ pipe = <<>>
    /\ nsent = 0

childvars == <<cpc, cfault, cend, ignoresTerm, cresult, cstderr, pipe, nsent>>
supvars == <<spc, result, expired, termSent, pipes, spawned>>
mainvars == <<vpc, nloaded, todo, out_f>>

\* a fresh task: nothing of the previous task's process is left in the state
ResetTask ==
    /\ expired' = FALSE
    /\ termSent' = FALSE
    /\ pipes' = 0
    /\ spawned' = 0
    /\ cpc' = "none"
    /\ cfault' = "none"
    /\ cend' = "none"
    /\ ignoresTerm' = FALSE
    /\ cresult' = <<>>
    /\ cstderr' = ""
    /\ pipe' = <<>>
    /\ nsent' = 0

\* lines 140-143: load the problems, open output_file for writing
MainOpen ==
    /\ vpc = "start"
    /\ vpc' = "loop"
    /\ todo' = nloaded
    /\ out_f' = <<>>
    /\ UNCHANGED <<nloaded, problem, supvars, childvars>>

\* lines 53-65 and 82-84 raising: run_unittest(problem) raises AttributeError or
\* TypeError, which nothing in main catches
CallRaises(p) ==
    \/ p.generated_solution = Null
    \/ /\ ~IsBlank(p.generated_solution)
       /\ ~TestsWellFormed(p.public_tests)

RunUnittestRaise ==
    /\ vpc = "loop" /\ todo > 0
    /\ \E p \in Problems :
        /\ CallRaises(p)
        /\ problem' = p
    /\ vpc' = "raised"
    /\ result' = NoResult
    /\ spc' = "none"
    /\ ResetTask
    /\ UNCHANGED <<nloaded, todo, out_f>>

\* lines 65-78: blank code returns at once
RunUnittestEmpty ==
    /\ vpc = "loop" /\ todo > 0
    /\ \E p \in Problems :
        /\ ~CallRaises(p)
        /\ IsBlank(p.generated_solution)
        /\ problem' = p
    /\ vpc' = "run"
    /\ result' = EmptyRecord
    /\ spc' = "ret"
    /\ ResetTask
    /\ UNCHANGED <<nloaded, todo, out_f>>

\* lines 80-107: synthesize the tests, create the pipe, start the process, join
RunUnittestSpawn ==
    /\ vpc = "loop" /\ todo > 0
    /\ \E p \in Problems :
        /\ ~CallRaises(p)
        /\ ~IsBlank(p.generated_solution)
        /\ problem' = p
    /\ vpc' = "run"
    /\ result' = NoResult
    /\ spc' = "join"
    /\ expired' = FALSE
    /\ termSent' = FALSE
    /\ pipes' = 1
    /\ spawned' = 1
    /\ cpc' = "exec"
    /\ cfault' = "none"
    /\ cend' = "none"
    /\ ignoresTerm' = FALSE
    /\ cresult' = <<>>
    /\ cstderr' = ""
    /\ pipe' = <<>>
    /\ nsent' = 0
    /\ UNCHANGED <<nloaded, todo, out_f>>

\* line 107: p.join(timeout) gives up at the deadline, the process still running
JoinTimeout ==
    /\ spc = "join" /\ is_alive
    /\ spc' = "check"
    /\ expired' = TRUE
    /\ UNCHANGED <<mainvars, problem, result, termSent, pipes, spawned, childvars>>

\* line 107: p.join(timeout) returns because the process has ended
JoinExited ==
    /\ spc = "join" /\ ~is_alive
    /\ spc' = "check"
    /\ UNCHANGED <<mainvars, problem, result, expired, termSent, pipes, spawned, childvars>>

\* lines 122-123: p.is_alive() holds, p.terminate()
SupTerminate ==
    /\ spc = "check" /\ is_alive
    /\ termSent' = TRUE
    /\ spc' = "term_join"
    /\ UNCHANGED <<mainvars, problem, result, expired, pipes, spawned, childvars>>

\* the timeout branch labelled as a silent exit
SupTermJoined_noresponse ==
    /\ spc = "term_join" /\ ~is_alive
    /\ result' = NoResponseRecord
    /\ spc' = "ret"
    /\ UNCHANGED <<mainvars, problem, expired, termSent, pipes, spawned, childvars>>

\* the timeout branch without the join: it returns while the process may live
SupTermJoined_nojoin ==
    /\ spc = "term_join"
    /\ result' = TimeoutRecord
    /\ spc' = "ret"
    /\ UNCHANGED <<mainvars, problem, expired, termSent, pipes, spawned, childvars>>

\* the timeout branch that still reads a message it finds in the channel
SupTermJoined_drain ==
    /\ spc = "term_join" /\ ~is_alive
    /\ result' = IF pipe # <<>> /\ pipe[1].whole THEN pipe[1].msg ELSE TimeoutRecord
    /\ spc' = "ret"
    /\ UNCHANGED <<mainvars, problem, expired, termSent, pipes, spawned, childvars>>

\* lines 124-128: p.join() returns once the process is gone
SupTermJoined ==
    /\ spc = "term_join" /\ ~is_alive
    /\ result' = TimeoutRecord
    /\ spc' = "ret"
    /\ UNCHANGED <<mainvars, problem, expired, termSent, pipes, spawned, childvars>>

\* the message branch written as "if" instead of "elif": taken whatever is_alive() said
SupRecv_if ==
    /\ spc = "check"
    /\ pipe # <<>> /\ pipe[1].whole
    /\ result' = pipe[1].msg
    /\ pipe' = Tail(pipe)
    /\ spc' = "ret"
    /\ UNCHANGED <<mainvars, problem, expired, termSent, pipes, spawned,
                   cpc, cfault, cend, ignoresTerm, cresult, cstderr, nsent>>

\* lines 129-130: parent_conn.poll() holds, recv() of a whole message
SupRecv ==
    /\ spc = "check" /\ ~is_alive
    /\ pipe # <<>> /\ pipe[1].whole
    /\ result' = pipe[1].msg
    /\ pipe' = Tail(pipe)
    /\ spc' = "ret"
    /\ UNCHANGED <<mainvars, problem, expired, termSent, pipes, spawned,
                   cpc, cfault, cend, ignoresTerm, cresult, cstderr, nsent>>

\* lines 129-130: parent_conn.poll() holds on the first bytes of a message whose
\* rest never comes: recv() blocks (the parent's child_conn keeps the pipe open)
SupRecvBlocks ==
    /\ spc = "check" /\ ~is_alive
    /\ pipe # <<>> /\ ~pipe[1].whole
    /\ spc' = "recv"
    /\ UNCHANGED <<mainvars, problem, result, expired, termSent, pipes, spawned, childvars>>

\* the silent-exit branch labelled as a timeout
SupNoResponse_timeout ==
    /\ spc = "check" /\ ~is_alive
    /\ pipe = <<>>
    /\ result' = TimeoutRecord
    /\ spc' = "ret"
    /\ UNCHANGED <<mainvars, problem, expired, termSent, pipes, spawned, childvars>>

\* lines 131-135
SupNoResponse ==
    /\ spc = "check" /\ ~is_alive
    /\ pipe = <<>>
    /\ result' = NoResponseRecord
    /\ spc' = "ret"
    /\ UNCHANGED <<mainvars, problem, expired, termSent, pipes, spawned, childvars>>

\* lines 137, 145-146: run_unittest returns, main writes the record
MainWrite ==
    /\ vpc = "run" /\ spc = "ret"
    /\ out_f' = Append(out_f, [task |-> nloaded - todo + 1, category |-> result.category])
    /\ todo' = todo - 1
    /\ vpc' = "loop"
    /\ spc' = "none"
    /\ problem' = NoProblem
    /\ result' = NoResult
    /\ ResetTask
    /\ UNCHANGED nloaded

\* line 148: the loop is over
MainDone ==
    /\ vpc = "loop" /\ todo = 0
    /\ vpc' = "done"
    /\ UNCHANGED <<nloaded, todo, out_f, problem, supvars, childvars>>

\* the batch has ended or was interrupted between two tasks (Ctrl-C, a crash of
\* run_unittest), and the script is run again with the same arguments: the
\* output file is as the earlier run left it
VRestart ==
    /\ vpc \in {"loop", "done", "raised"}
    /\ vpc' = "start"
    /\ todo' = 0
    /\ problem' = NoProblem
    /\ spc' = "none"
    /\ result' = NoResult
    /\ ResetTask
    /\ UNCHANGED <<nloaded, out_f>>

(***************************************************************************)
(* _worker: the isolated process.  What the generated code does is not     *)
(* known: every action below that depends on it is a choice of the code.   *)
(***************************************************************************)
\* the generated code gets to run only if the combined source compiles
CodeRuns == ~ClassBodyEmpty(methods)

\* conn.send(m): a message that fits the channel's buffer is delivered whole; of a
\* larger one only the first part is written and send blocks until the reader reads
\* (intime: send was called before join(timeout) gave up)
Send(m, fits) ==
    /\ pipe' = Append(pipe, [msg |-> m, whole |-> fits, intime |-> ~expired])
    /\ nsent' = nsent + 1
    /\ cpc' = IF fits THEN "sent" ELSE "send_blocked"

\* lines 31, 45-49: exec raises an Exception (the source does not compile, or the
\* code raises while it is defined); the except clause sends the traceback
ChildExecRaises ==
    /\ cpc = "exec"
    /\ cfault' = "exception"
    /\ \E fits \in BOOLEAN : Send(ErrorMessage, fits)
    /\ UNCHANGED <<mainvars, problem, supvars, cend, ignoresTerm, cresult, cstderr>>

\* an except clause that catches BaseException: the exit request is reported
ChildExecExits_caught ==
    /\ cpc = "exec" /\ CodeRuns
    /\ cfault' = "exit_request"
    /\ \E fits \in BOOLEAN : Send(ErrorMessage, fits)
    /\ UNCHANGED <<mainvars, problem, supvars, cend, ignoresTerm, cresult, cstderr>>

\* lines 31, 50-51: the code raises SystemExit, which "except Exception" does not
\* catch: the finally clause closes the connection and the process ends
ChildExecExits ==
    /\ cpc = "exec" /\ CodeRuns
    /\ cfault' = "exit_request"
    /\ cend' = "closed"
    /\ cpc' = "exited"
    /\ UNCHANGED <<mainvars, problem, supvars, ignoresTerm, cresult, cstderr, pipe, nsent>>

\* the process is ended from inside the code (os._exit, a fatal signal, an alarm
\* the code has set), also while it is blocked in send
ChildDies ==
    /\ cpc \in {"exec", "tests", "send_blocked"} /\ CodeRuns
    /\ cend' = "died"
    /\ cpc' = "exited"
    /\ UNCHANGED <<mainvars, problem, supvars, cfault, ignoresTerm, cresult, cstderr, pipe,
                   nsent>>

\* the code replaces the SIGTERM disposition (signal.signal(SIGTERM, SIG_IGN))
ChildIgnoresTerm ==
    /\ cpc \in {"exec", "tests"} /\ CodeRuns
    /\ ~ignoresTerm
    /\ ignoresTerm' = TRUE
    /\ UNCHANGED <<mainvars, problem, supvars, cpc, cfault, cend, cresult, cstderr, pipe,
                   nsent>>

\* lines 31-33: exec returns, the suite is loaded from TestDataclass
ChildExecDone ==
    /\ cpc = "exec" /\ CodeRuns
    /\ cpc' = "tests"
    /\ UNCHANGED <<mainvars, problem, supvars, cfault, cend, ignoresTerm, cresult, cstderr,
                   pipe, nsent>>

\* lines 86-92: one test method: solve returns r or raises, and may write to stderr
TestOutcome(r, expected) == IF r = <<"raise">> THEN "error"
                            ELSE IF AssertionPasses(r, expected) THEN "ok" ELSE "fail"

ChildRunTest ==
    /\ cpc = "tests" /\ Len(cresult) < Len(methods)
    /\ \E r \in SolveResults \cup {<<"raise">>} :
        cresult' = Append(cresult, TestOutcome(r, methods[Len(cresult) + 1].expected))
    /\ \E w \in {cstderr, "user_text"} : cstderr' = w
    /\ UNCHANGED <<mainvars, problem, supvars, cpc, cfault, cend, ignoresTerm, pipe, nsent>>

\* lines 35-44: the runner is done, the outcome is sent
ChildSendOutcome ==
    /\ cpc = "tests" /\ Len(cresult) = Len(methods)
    /\ \E fits \in BOOLEAN : Send(OutcomeMessage(cresult, cstderr), fits)
    /\ UNCHANGED <<mainvars, problem, supvars, cfault, cend, ignoresTerm, cresult, cstderr>>

\* lines 37-49: building the outcome message or its send raises an Exception
\* before anything reaches the channel (sys.stdout replaced by the code, a message
\* that cannot be pickled); the except clause sends the traceback
ChildSendRaises ==
    /\ cpc = "tests" /\ Len(cresult) = Len(methods)
    /\ cfault' = "outcome"
    /\ \E fits \in BOOLEAN : Send(ErrorMessage, fits)
    /\ UNCHANGED <<mainvars, problem, supvars, cend, ignoresTerm, cresult, cstderr>>

\* lines 50-51: conn.close(), the process ends
ChildExit ==
    /\ cpc = "sent"
    /\ cend' = "closed"
    /\ cpc' = "exited"
    /\ UNCHANGED <<mainvars, problem, supvars, cfault, ignoresTerm, cresult, cstderr, pipe, nsent>>

\* SIGTERM (line 123) ends a process that has not replaced its disposition
ChildTerminated ==
    /\ termSent /\ is_alive /\ ~ignoresTerm
    /\ cend' = "terminated"
    /\ cpc' = "exited"
    /\ UNCHANGED <<mainvars, problem, supvars, cfault, ignoresTerm, cresult, cstderr, pipe, nsent>>

(***************************************************************************)
(* The generation run: main, the thread pool and process_one_completion.   *)
(* output_file is a sequence of chunks: a record is written as its first   *)
(* part ("head"), its remaining part ("rest") and the newline ("nl"), so   *)
(* that a run killed while it appends leaves a prefix of a record.         *)
(***************************************************************************)
\* lines 252-257 without the filter: (problem, i) for every problem and index
RECURSIVE JobsFrom(_, _)
JobsFrom(n, i) ==
    IF n > Len(ProblemSeq) THEN <<>>
    ELSE IF i >= ComplPerProblem THEN JobsFrom(n + 1, 0)
    ELSE <<(<<ProblemSeq[n], i>>)>> \o JobsFrom(n, i + 1)

AllJobs == JobsFrom(1, 0)

\* the lines of a file, the unterminated last one included ("for line in f")
RECURSIVE SplitLines(_, _)
SplitLines(chunks, cur) ==
    IF chunks = <<>> THEN (IF cur = <<>> THEN <<>> ELSE <<cur>>)
    ELSE IF Head(chunks).part = "nl" THEN <<cur>> \o SplitLines(Tail(chunks), <<>>)
    ELSE SplitLines(Tail(chunks), Append(cur, Head(chunks)))

Lines(f) == SplitLines(f, <<>>)

\* json.loads(line) succeeds: the line is the two parts of one record, nothing else
Parses(line) ==
    /\ Len(line) = 2
    /\ line[1].part = "head" /\ line[2].part = "rest"
    /\ line[1].key = line[2].key

\* a scan that leaves out the records of failed generations, so that they are retried
ScanKeys_retry(f) ==
    {Lines(f)[n][1].key : n \in {m \in 1..Len(Lines(f)) :
        /\ Parses(Lines(f)[m])
        /\ Lines(f)[m][1].tag # "api_call_failure"
        /\ Lines(f)[m][1].gs # ""}}

\* lines 167-178: the keys of the lines that parse; the others are skipped
ScanKeys(f) == {Lines(f)[n][1].key : n \in {m \in 1..Len(Lines(f)) : Parses(Lines(f)[m])}}

\* lines 252-257: the jobs whose key is not in the ledger
RECURSIVE SelectJobs(_, _)
SelectJobs(all, done) ==
    IF all = <<>> THEN <<>>
    ELSE IF Head(all) \in done THEN SelectJobs(Tail(all), done)
    ELSE <<Head(all)>> \o SelectJobs(Tail(all), done)

\* the text of a line can be decoded: no cut inside a multi-byte character
Decodable(f) == \A n \in 1..Len(f) : f[n].part # "cut"

\* a job of wave w that no thread has taken yet
Pending(w) == [pc |-> "pending", fault |-> "none", tag |-> "none", gs |-> "", wave |-> w,
               file |-> 0]

Running(j) == job[j].pc \in {"api", "lock", "w1", "w2"}

NumRunning == Cardinality({j \in 1..Len(jobs) : Running(j)})

\* the busy threads of the executor of wave w
RunningIn(w) == Cardinality({j \in 1..Len(jobs) : Running(j) /\ job[j].wave = w})

Unfinished(j) == job[j].pc = "pending" \/ Running(j)

GInit ==
    /\ gpc = "start"
    /\ runs = 0
    /\ shape \in [ProblemIds -> Shapes]
    /\ withoutexemples \in BOOLEAN
    /\ nwaves = 1
    /\ wave = 1
    /\ files = [w \in 1..MaxWaves |-> <<>>]
    /\ ledger = {}
    /\ jobs = <<>>
    /\ job = <<>>
    /\ lock = 0

\* lines 139-166: the script is started; main enters the first wave and binds
\* output_file, model and temperature
GStart ==
    /\ gpc \in {"start", "done", "raised", "scan_raised", "killed"}
    /\ runs < MaxRuns
    /\ runs' = runs + 1
    /\ wave' = 1
    /\ ledger' = {}
    /\ jobs' = <<>>
    /\ job' = <<>>
    /\ lock' = 0
    /\ gpc' = "scan"
    /\ UNCHANGED <<shape, withoutexemples, nwaves, files>>

\* lines 160-166: the loops go to the next (model, temperature) pair and rebind
\* output_file, model and temperature; the futures of the finished wave go with
\* its executor, a thread that were still running would go on
GNextWave ==
    /\ gpc = "between"
    /\ wave < nwaves
    /\ wave' = wave + 1
    /\ gpc' = "scan"
    /\ IF \E j \in 1..Len(jobs) : Unfinished(j)
       THEN UNCHANGED <<jobs, job, lock>>
       ELSE jobs' = <<>> /\ job' = <<>> /\ lock' = 0
    /\ UNCHANGED <<runs, shape, withoutexemples, nwaves, files, ledger>>

\* lines 167-178, 252-260: scan the output file into the ledger, filter the jobs,
\* give them to the pool
GScan ==
    /\ gpc = "scan"
    /\ Decodable(gfile)
    /\ ledger' = ScanKeys(gfile)
    /\ LET new == SelectJobs(AllJobs, ledger') IN
         /\ jobs' = jobs \o new
         /\ job' = job \o [j \in 1..Len(new) |-> Pending(wave)]
    /\ gpc' = "pool"
    /\ UNCHANGED <<runs, shape, withoutexemples, nwaves, wave, files, lock>>

\* line 171: "for line in f" decodes the file outside the try block: bytes that
\* are no UTF-8 text raise UnicodeDecodeError, which leaves main
GScanRaises ==
    /\ gpc = "scan"
    /\ ~Decodable(gfile)
    /\ gpc' = "scan_raised"
    /\ UNCHANGED <<runs, shape, withoutexemples, nwaves, wave, files, ledger, jobs, job,
                   lock>>

\* lines 180-213: a free worker thread takes the next job of the queue and runs
\* process_one_completion up to the call of the model
GTake(j) ==
    /\ gpc \in {"pool", "aborting"}
    /\ j \in 1..Len(jobs)
    /\ job[j].pc = "pending"
    /\ \A i \in 1..(j - 1) : job[i].pc # "pending"
    /\ RunningIn(job[j].wave) < NumThreads
    /\ LET sh == shape[jobs[j][1]] IN
       job' = [job EXCEPT ![j] =
           IF sh = "bad_description" /\ withoutexemples
           THEN \* line 184 raises outside the try block
                [@ EXCEPT !.pc = "raised", !.fault = "build"]
           ELSE IF jobs[j] \in ledger
           THEN [@ EXCEPT !.pc = "done"]
           ELSE IF sh = "bad_description"
           THEN \* line 209 raises, lines 231-246 build the failure record
                [@ EXCEPT !.pc = "lock", !.fault = "build", !.tag = "api_call_failure"]
           ELSE [@ EXCEPT !.pc = "api"]]
    /\ UNCHANGED <<gpc, runs, shape, withoutexemples, nwaves, wave, files, ledger, jobs, lock>>

\* lines 67-96 and 214-246: create_completion returns the text, or "" when the
\* call failed (it catches the error itself); then the record is built
GApiReturn(j) ==
    /\ gpc \in {"pool", "aborting"}
    /\ j \in 1..Len(jobs)
    /\ job[j].pc = "api"
    /\ \E failed \in BOOLEAN :
        job' = [job EXCEPT ![j] =
            IF shape[jobs[j][1]] = "bad_tests"
            THEN \* line 227 raises, and line 244 of the except clause raises again
                 [@ EXCEPT !.pc = "raised",
                           !.fault = IF failed THEN "api" ELSE "build"]
            ELSE [@ EXCEPT !.pc = "lock",
                           !.fault = IF failed THEN "api" ELSE "none",
                           !.gs = IF failed THEN "" ELSE "code"]]
    /\ UNCHANGED <<gpc, runs, shape, withoutexemples, nwaves, wave, files, ledger, jobs, lock>>

Chunk(j, p) == [key |-> jobs[j], part |-> p, tag |-> job[j].tag, gs |-> job[j].gs,
                wave |-> job[j].wave]

\* an append that does not take the lock
GAcquire_nolock(j) ==
    /\ gpc \in {"pool", "aborting"}
    /\ j \in 1..Len(jobs)
    /\ job[j].pc = "lock"
    /\ lock' = j
    /\ files' = [files EXCEPT ![wave] = Append(@, Chunk(j, "head"))]
    /\ job' = [job EXCEPT ![j].pc = "w1", ![j].file = wave]
    /\ UNCHANGED <<gpc, runs, shape, withoutexemples, nwaves, wave, ledger, jobs>>

\* lines 248-250: with lock, the file output_file names is opened in append mode
\* and the first bytes of the record reach it
GAcquire(j) ==
    /\ gpc \in {"pool", "aborting"}
    /\ j \in 1..Len(jobs)
    /\ job[j].pc = "lock"
    /\ lock = 0
    /\ lock' = j
    /\ files' = [files EXCEPT ![wave] = Append(@, Chunk(j, "head"))]
    /\ job' = [job EXCEPT ![j].pc = "w1", ![j].file = wave]
    /\ UNCHANGED <<gpc, runs, shape, withoutexemples, nwaves, wave, ledger, jobs>>

\* line 250: the remaining bytes of the record reach the file
GWrite(j) ==
    /\ gpc \in {"pool", "aborting"}
    /\ j \in 1..Len(jobs)
    /\ job[j].pc = "w1"
    /\ files' = [files EXCEPT ![job[j].file] = Append(@, Chunk(j, "rest"))]
    /\ job' = [job EXCEPT ![j].pc = "w2"]
    /\ UNCHANGED <<gpc, runs, shape, withoutexemples, nwaves, wave, ledger, jobs, lock>>

\* lines 248-250: the newline is written, the file closed, the lock released
GWriteEnd(j) ==
    /\ gpc \in {"pool", "aborting"}
    /\ j \in 1..Len(jobs)
    /\ job[j].pc = "w2"
    /\ files' = [files EXCEPT ![job[j].file] = Append(@, Chunk(j, "nl"))]
    /\ job' = [job EXCEPT ![j].pc = "done"]
    /\ lock' = IF lock = j THEN 0 ELSE lock
    /\ UNCHANGED <<gpc, runs, shape, withoutexemples, nwaves, wave, ledger, jobs>>

\* line 261: list(executor.map(...)) takes the results in job order; the first
\* one that is an exception is raised in main, and the iterator cancels the
\* futures that have not started
GCollectRaises ==
    /\ gpc = "pool"
    /\ \E j \in 1..Len(jobs) :
          /\ job[j].pc = "raised"
          /\ \A i \in 1..(j - 1) : job[i].pc = "done"
    /\ gpc' = "aborting"
    /\ job' = [j \in 1..Len(jobs) |->
                  IF job[j].pc = "pending" THEN [job[j] EXCEPT !.pc = "cancelled"]
                  ELSE job[j]]
    /\ UNCHANGED <<runs, shape, withoutexemples, nwaves, wave, files, ledger, jobs, lock>>

\* a pool that is left without waiting for its threads
GFinish_nowait ==
    /\ gpc = "pool"
    /\ gpc' = IF wave < nwaves THEN "between" ELSE "done"
    /\ UNCHANGED <<runs, shape, withoutexemples, nwaves, wave, files, ledger, jobs, job, lock>>

\* lines 260-265: every result was taken, the executor shuts down
GFinish ==
    /\ gpc = "pool"
    /\ \A j \in 1..Len(jobs) : job[j].pc = "done"
    /\ gpc' = IF wave < nwaves THEN "between" ELSE "done"
    /\ UNCHANGED <<runs, shape, withoutexemples, nwaves, wave, files, ledger, jobs, job, lock>>

\* line 260: leaving the with block waits for the running threads, then the
\* exception leaves main
GAbort ==
    /\ gpc = "aborting"
    /\ NumRunning = 0
    /\ gpc' = "raised"
    /\ UNCHANGED <<runs, shape, withoutexemples, nwaves, wave, files, ledger, jobs, job, lock>>

\* the process is killed, at any point of a run: what is in the file stays; a
\* write under way stops at any byte, also inside a multi-byte character (line
\* 250 writes with ensure_ascii=False)
GKill ==
    /\ gpc \in {"pool", "aborting"}
    /\ gpc' = "killed"
    /\ \E inchar \in BOOLEAN :
          files' = IF inchar /\ lock # 0 /\ job[lock].pc = "w1"
                   THEN [files EXCEPT ![job[lock].file] = Append(@, Chunk(lock, "cut"))]
                   ELSE files
    /\ jobs' = <<>>
    /\ job' = <<>>
    /\ lock' = 0
    /\ ledger' = {}
    /\ UNCHANGED <<runs, shape, withoutexemples, nwaves, wave>>

SupNext == \/ JoinTimeout \/ JoinExited \/ SupTerminate \/ SupTermJoined
           \/ SupRecv \/ SupRecvBlocks \/ SupNoResponse

MainNext == \/ MainOpen \/ RunUnittestRaise \/ RunUnittestEmpty \/ RunUnittestSpawn
            \/ MainWrite \/ MainDone

\* the verification batch alone: the generation run does not move
GIdle ==
    /\ gpc = "idle"
    /\ runs = 0
    /\ shape = [id \in ProblemIds |-> "ok"]
    /\ withoutexemples = FALSE
    /\ nwaves = 1
    /\ wave = 1
    /\ files = [w \in 1..MaxWaves |-> <<>>]
    /\ ledger = {}
    /\ jobs = <<>>
    /\ job = <<>>
    /\ lock = 0

\* no loader runs
LIdle ==
    /\ loader = "none"
    /\ infile = <<>>
    /\ lpc = "idle"
    /\ lineno = 0
    /\ items = <<>>
    /\ seen_ids = {}

Init == VInit /\ GIdle /\ LIdle

Next ==
    \/ MainOpen /\ UNCHANGED <<gvars, lvars>>
    \/ RunUnittestRaise /\ UNCHANGED <<gvars, lvars>>
    \/ RunUnittestEmpty /\ UNCHANGED <<gvars, lvars>>
    \/ RunUnittestSpawn /\ UNCHANGED <<gvars, lvars>>
    \/ MainWrite /\ UNCHANGED <<gvars, lvars>>
    \/ MainDone /\ UNCHANGED <<gvars, lvars>>
    \/ VRestart /\ UNCHANGED <<gvars, lvars>>
    \/ JoinTimeout /\ UNCHANGED <<gvars, lvars>>
    \/ JoinExited /\ UNCHANGED <<gvars, lvars>>
    \/ SupTerminate /\ UNCHANGED <<gvars, lvars>>
    \/ SupTermJoined /\ UNCHANGED <<gvars, lvars>>
    \/ SupRecv /\ UNCHANGED <<gvars, lvars>>
    \/ SupRecvBlocks /\ UNCHANGED <<gvars, lvars>>
    \/ SupNoResponse /\ UNCHANGED <<gvars, lvars>>
    \/ ChildExecRaises /\ UNCHANGED <<gvars, lvars>>
    \/ ChildExecExits /\ UNCHANGED <<gvars, lvars>>
    \/ ChildDies /\ UNCHANGED <<gvars, lvars>>
    \/ ChildIgnoresTerm /\ UNCHANGED <<gvars, lvars>>
    \/ ChildExecDone /\ UNCHANGED <<gvars, lvars>>
    \/ ChildRunTest /\ UNCHANGED <<gvars, lvars>>
    \/ ChildSendOutcome /\ UNCHANGED <<gvars, lvars>>
    \/ ChildSendRaises /\ UNCHANGED <<gvars, lvars>>
    \/ ChildExit /\ UNCHANGED <<gvars, lvars>>
    \/ ChildTerminated /\ UNCHANGED <<gvars, lvars>>

Spec == Init /\ [][Next]_vars

\* the generation run alone: the verification batch does not move
VIdle ==
    /\ vpc = "idle"
    /\ nloaded = 0
    /\ todo = 0
    /\ problem = NoProblem
    /\ out_f = <<>>
    /\ spc = "none"
    /\ result = NoResult
    /\ expired = FALSE
    /\ termSent = FALSE
    /\ pipes = 0
    /\ spawned = 0
    /\ cpc = "none"
    /\ cfault = "none"
    /\ cend = "none"
    /\ ignoresTerm = FALSE
    /\ cresult = <<>>
    /\ cstderr = ""
    /\ pipe = <<>>
    /\ nsent = 0

GenInit == GInit /\ VIdle /\ LIdle

GenNext ==
    \/ GStart /\ UNCHANGED <<vvars, lvars>>
    \/ GScan /\ UNCHANGED <<vvars, lvars>>
    \/ GScanRaises /\ UNCHANGED <<vvars, lvars>>
    \/ \E j \in 1..Len(jobs) : GTake(j) /\ UNCHANGED <<vvars, lvars>>
    \/ \E j \in 1..Len(jobs) : GApiReturn(j) /\ UNCHANGED <<vvars, lvars>>
    \/ \E j \in 1..Len(jobs) : GAcquire(j) /\ UNCHANGED <<vvars, lvars>>
    \/ \E j \in 1..Len(jobs) : GWrite(j) /\ UNCHANGED <<vvars, lvars>>
    \/ \E j \in 1..Len(jobs) : GWriteEnd(j) /\ UNCHANGED <<vvars, lvars>>
    \/ GCollectRaises /\ UNCHANGED <<vvars, lvars>>
    \/ GFinish /\ UNCHANGED <<vvars, lvars>>
    \/ GAbort /\ UNCHANGED <<vvars, lvars>>
    \/ GKill /\ UNCHANGED <<vvars, lvars>>

GenSpec == GenInit /\ [][GenNext]_vars

\* a run over several (model, temperature) pairs, one wave each
WInit ==
    /\ gpc = "start"
    /\ runs = 0
    /\ shape \in [ProblemIds -> Shapes]
    /\ withoutexemples \in BOOLEAN
    /\ nwaves \in 1..MaxWaves
    /\ wave = 1
    /\ files = [w \in 1..MaxWaves |-> <<>>]
    /\ ledger = {}
    /\ jobs = <<>>
    /\ job = <<>>
    /\ lock = 0

WaveInit == WInit /\ VIdle /\ LIdle

WaveNext ==
    \/ GStart /\ UNCHANGED <<vvars, lvars>>
    \/ GNextWave /\ UNCHANGED <<vvars, lvars>>
    \/ GScan /\ UNCHANGED <<vvars, lvars>>
    \/ GScanRaises /\ UNCHANGED <<vvars, lvars>>
    \/ \E j \in 1..Len(jobs) : GTake(j) /\ UNCHANGED <<vvars, lvars>>
    \/ \E j \in 1..Len(jobs) : GApiReturn(j) /\ UNCHANGED <<vvars, lvars>>
    \/ \E j \in 1..Len(jobs) : GAcquire(j) /\ UNCHANGED <<vvars, lvars>>
    \/ \E j \in 1..Len(jobs) : GWrite(j) /\ UNCHANGED <<vvars, lvars>>
    \/ \E j \in 1..Len(jobs) : GWriteEnd(j) /\ UNCHANGED <<vvars, lvars>>
    \/ GCollectRaises /\ UNCHANGED <<vvars, lvars>>
    \/ GFinish /\ UNCHANGED <<vvars, lvars>>
    \/ GAbort /\ UNCHANGED <<vvars, lvars>>
    \/ GKill /\ UNCHANGED <<vvars, lvars>>

WaveSpec == WaveInit /\ [][WaveNext]_vars

(***************************************************************************)
(* The loaders, one line of the file per step.                             *)
(***************************************************************************)
\* the task files of up to MaxLines lines
TaskFiles == UNION {[1..n -> LineKinds] : n \in 0..MaxLines}

LInit ==
    /\ loader \in {"load_jsonl", "load_dataset"}
    /\ infile \in TaskFiles
    /\ lpc = "loading"
    /\ lineno = 0
    /\ items = <<>>
    /\ seen_ids = {}

\* json.loads(line) raises JSONDecodeError
JsonFails(kind) == kind = "bad_json"

\* problem.get("problem_id") of the parsed line: "" stands for None
problem_id(kind) == IF kind \in {"p1", "p2"} THEN kind ELSE ""

NextLine == infile[lineno + 1]

\* unit_test.py lines 13-20: a blank line is passed over, a line json.loads
\* rejects is reported and passed over, any other line is appended
LoadJsonlLine ==
    /\ loader = "load_jsonl" /\ lpc = "loading" /\ lineno < Len(infile)
    /\ lineno' = lineno + 1
    /\ items' = IF NextLine = "blank" \/ JsonFails(NextLine) THEN items
                ELSE Append(items, NextLine)
    /\ UNCHANGED <<loader, infile, lpc, seen_ids>>

\* codegenerate lines 25-40: a blank line and a problem_id seen before are passed
\* over, any other line json.loads accepts and that has a problem_id is appended
LoadDatasetLine ==
    /\ loader = "load_dataset" /\ lpc = "loading" /\ lineno < Len(infile)
    /\ NextLine = "blank" \/ (~JsonFails(NextLine) /\ problem_id(NextLine) # "")
    /\ lineno' = lineno + 1
    /\ IF NextLine = "blank" \/ problem_id(NextLine) \in seen_ids
       THEN UNCHANGED <<items, seen_ids>>
       ELSE /\ items' = Append(items, NextLine)
            /\ seen_ids' = seen_ids \cup {problem_id(NextLine)}
    /\ UNCHANGED <<loader, infile, lpc>>

\* codegenerate lines 30-34: json.loads raises JSONDecodeError (nothing catches
\* it), or the problem_id is missing and ValueError is raised
LoadDatasetRaises ==
    /\ loader = "load_dataset" /\ lpc = "loading" /\ lineno < Len(infile)
    /\ NextLine # "blank"
    /\ JsonFails(NextLine) \/ problem_id(NextLine) = ""
    /\ lpc' = "raised"
    /\ UNCHANGED <<loader, infile, lineno, items, seen_ids>>

\* unit_test.py line 21, codegenerate line 42: the file is read, the list returned
LoadReturn ==
    /\ lpc = "loading" /\ lineno = Len(infile)
    /\ lpc' = "returned"
    /\ UNCHANGED <<loader, infile, lineno, items, seen_ids>>

LoadNext ==
    \/ LoadJsonlLine /\ UNCHANGED <<vvars, gvars>>
    \/ LoadDatasetLine /\ UNCHANGED <<vvars, gvars>>
    \/ LoadDatasetRaises /\ UNCHANGED <<vvars, gvars>>
    \/ LoadReturn /\ UNCHANGED <<vvars, gvars>>

LoadInit == LInit /\ VIdle /\ GIdle

LoadSpec == LoadInit /\ [][LoadNext]_vars

\* The scheduling the supervisor can count on: the main loop and the supervisor
\* take their steps, and the kernel delivers SIGTERM.  Nothing is assumed of the
\* isolated code.
FairSpec == /\ Init /\ [][Next]_vars
            /\ WF_vars(MainNext /\ UNCHANGED <<gvars, lvars>>)
            /\ WF_vars(SupNext /\ UNCHANGED <<gvars, lvars>>)
            /\ WF_vars(ChildTerminated /\ UNCHANGED <<gvars, lvars>>)

(***************************************************************************)
(* Properties of the verification batch.                                   *)
(***************************************************************************)
Returned == vpc = "run" /\ spc = "ret"
Spawned == spawned = 1

\* C1: run_unittest eventually returns for every task whose process it has
\* started, whatever the isolated code does.
C1_EventuallyReturns == (spc = "join") ~> (spc = "ret")

\* C2: every task loaded produces exactly one record, written once, and no task
\* raises out of the loop: when main ends, out_f holds one record per loaded task.
C2_OneRecordPerTask ==
    vpc \in {"done", "raised"} =>
        /\ vpc = "done"
        /\ Len(out_f) = nloaded
        /\ \A i \in 1..Len(out_f) : out_f[i].task = i

\* C5: non-blank code, every public test's assertion passed (any number of tests,
\* zero included) and the process ended before the deadline: category success.
AllAssertionsPass ==
    /\ Len(cresult) = Len(methods)
    /\ \A i \in 1..Len(cresult) : cresult[i] = "ok"

C5_AllPassIsSuccess ==
    (Returned /\ Spawned /\ ~expired /\ cend = "closed" /\ cfault # "exit_request"
         /\ AllAssertionsPass)
        => result.category = "success"

\* C6: while the code of a task is still running nothing is returned, and the
\* supervisor gets past join only by the timeout running out; a task whose code
\* never finishes (it is ended by SIGTERM alone) is alive at the deadline, is
\* terminated and gets category timeout; timeout is returned only when the
\* process was alive at the deadline.
NeverFinished == cend = "terminated" /\ nsent = 0 /\ cfault = "none"

C6_TimeoutIffAliveAtDeadline ==
    /\ (Spawned /\ cpc \in {"exec", "tests"}) =>
           /\ spc \in {"join", "check", "term_join"} /\ result = NoResult
           /\ spc = "term_join" => (expired /\ termSent)
    /\ (Returned /\ Spawned) =>
           /\ NeverFinished => (result = TimeoutRecord /\ expired /\ termSent)
           /\ result.category = "timeout" => (expired /\ termSent)

C6_Witness == Returned /\ NeverFinished /\ result.category = "timeout"

\* C7: blank generated_solution (empty or whitespace only): the record is
\* empty_code_extracted, and no pipe is created and no process started.
C7_BlankNeverSpawns ==
    (problem.generated_solution # Null /\ Strip(problem.generated_solution) = <<>>) =>
        /\ pipes = 0 /\ spawned = 0 /\ cpc = "none"
        /\ spc = "ret" /\ result = EmptyRecord

C7_Witness == Returned /\ problem.generated_solution = <<" ", " ">>
                       /\ result.category = "empty_code_extracted"

\* C8 as stated: any fault raised by exec before the tests run, an exit request
\* included, yields execution_error with the traceback (process ended in time).
C8_AnyFaultIsExecutionError ==
    (Returned /\ Spawned /\ ~expired /\ cfault \in {"exception", "exit_request"})
        => result = ErrorMessage

\* C8 amended: an Exception raised by exec yields execution_error with the
\* traceback unless the supervisor found the process alive (then timeout); an
\* exit request is not caught, sends nothing and yields no_response (or timeout);
\* execution_error comes from an Exception only, raised by exec or while the
\* outcome message is built or sent.
C8_ExceptionIsExecutionError ==
    (Returned /\ Spawned) =>
        /\ cfault = "exception" =>
              /\ result.category \in {"execution_error", "timeout"}
              /\ ~termSent => result = ErrorMessage
        /\ cfault = "exit_request" =>
              /\ result.category \in {"no_response", "timeout"}
              /\ ~termSent => result = NoResponseRecord
        /\ result.category = "execution_error" =>
              (cfault \in {"exception", "outcome"} /\ result.error = "traceback")

C8_Witness == Returned /\ cfault = "exit_request" /\ result.category = "no_response"
                       /\ ~expired

\* C9: N >= 1 tests, the code loads, at least one assertion fails and the outcome
\* reaches the supervisor: category test_failure and the error field identifies
\* the mismatch.
IdentifiesMismatch(text) == text = "report_output_mismatch"

C9_FailureNamesMismatch ==
    (Returned /\ Spawned /\ Len(cresult) = Len(methods)
         /\ (\E i \in 1..Len(cresult) : cresult[i] = "fail")
         /\ result.category \notin {"timeout", "no_response"})
        => (result.category = "test_failure" /\ IdentifiesMismatch(result.error))

\* C10 as stated: no_response exactly when the process exited before the deadline
\* without having delivered a message.
C10_NoResponseIffExitedBeforeDeadline ==
    (Returned /\ Spawned) =>
        (result.category = "no_response" <=> (~expired /\ nsent = 0))

\* C10 amended: no_response exactly when the process had ended, having sent
\* nothing, by the time the supervisor tested is_alive() (at the deadline or
\* after join returned early); in particular whenever it ended before the deadline.
C10_NoResponseIffGoneAtCheck ==
    (Returned /\ Spawned) =>
        /\ result.category = "no_response" <=> (~termSent /\ nsent = 0)
        /\ (~expired /\ nsent = 0) => result = NoResponseRecord

C10_Witness == Returned /\ result.category = "no_response" /\ expired /\ cend = "died"

(***************************************************************************)
(* Properties of the generation run.                                       *)
(***************************************************************************)
\* the well-formed records of the output file that carry key k
RecordsOf(k) == {n \in 1..Len(Lines(gfile)) :
                    Parses(Lines(gfile)[n]) /\ Lines(gfile)[n][1].key = k}

\* C3: resume idempotence: whatever runs were killed before (also in the middle
\* of an append), once a run completes the output file holds exactly one
\* well-formed record for every input key.
C3_ResumeIdempotent ==
    gpc = "done" => \A k \in Keys : Cardinality(RecordsOf(k)) = 1

\* C4: a job in which the model call failed or building the record raised ends
\* with one record tagged api_call_failure in the file, its exception never
\* leaves the worker, and no job of the wave is cancelled.
C4_FaultBecomesTaggedRecord ==
    \A j \in 1..Len(jobs) :
        /\ job[j].pc # "cancelled"
        /\ (job[j].fault # "none" /\ job[j].pc \in {"done", "raised"}) =>
              /\ job[j].pc = "done"
              /\ \E n \in RecordsOf(jobs[j]) :
                    Lines(gfile)[n][1].tag = "api_call_failure"

(***************************************************************************)
(* The taxonomy of the verification records and the supervisor's branches. *)
(***************************************************************************)
Categories == {"empty_code_extracted", "timeout", "no_response", "execution_error",
               "test_failure", "success"}

BranchAlive == ENABLED SupTerminate
BranchMessage == ENABLED (SupRecv \/ SupRecvBlocks)
BranchNeither == ENABLED SupNoResponse

\* C11: every record run_unittest returns (and every record written) carries one
\* category, one of the six of the taxonomy; where the supervisor chooses its
\* branch exactly one of alive-at-deadline, message-available and neither is open.
C11_OneCategoryOfSix ==
    /\ Returned => result.category \in Categories
    /\ \A i \in 1..Len(out_f) : out_f[i].category \in Categories
    /\ spc = "check" =>
          /\ BranchAlive \/ BranchMessage \/ BranchNeither
          /\ ~(BranchAlive /\ BranchMessage)
          /\ ~(BranchAlive /\ BranchNeither)
          /\ ~(BranchMessage /\ BranchNeither)
    /\ spc # "check" => ~(BranchAlive \/ BranchMessage \/ BranchNeither)

C11_Witness == /\ vpc = "run" /\ spc = "check" /\ cpc = "sent" /\ pipe # <<>>
               /\ Len(out_f) = 1 /\ out_f[1].category = "test_failure"

(***************************************************************************)
(* The append section of the result sink.                                  *)
(***************************************************************************)
\* the threads inside the open-append-write section
InAppend == {j \in 1..Len(jobs) : job[j].pc \in {"w1", "w2"}}

\* the record of job j stands in the file at chunks n, n+1, n+2, in one piece
RecordAt(j, n) ==
    /\ n >= 1 /\ n + 2 <= Len(gfile)
    /\ gfile[n] = Chunk(j, "head")
    /\ gfile[n + 1] = Chunk(j, "rest")
    /\ gfile[n + 2] = Chunk(j, "nl")

AtLineStart(n) == n = 1 \/ gfile[n - 1].part = "nl"

\* C12: at most one thread is inside the append section at a time, and it holds
\* the lock; what a thread inside the section has written so far is the end of
\* the file, in one piece; when a wave ends with all its threads finished, every
\* task dispatched has its record in the file in one piece, newline included,
\* and, where that record began on a fresh line, exactly one parseable line.
C12_AppendsSerialized ==
    /\ Cardinality(InAppend) <= 1
    /\ \A j \in InAppend : lock = j
    /\ \A j \in 1..Len(jobs) :
          /\ job[j].pc = "w1" => gfile[Len(gfile)] = Chunk(j, "head")
          /\ job[j].pc = "w2" => /\ gfile[Len(gfile)] = Chunk(j, "rest")
                                 /\ gfile[Len(gfile) - 1] = Chunk(j, "head")
    /\ gpc = "done" =>
          \A j \in 1..Len(jobs) :
              \E n \in 1..Len(gfile) :
                  /\ RecordAt(j, n)
                  /\ AtLineStart(n) => Cardinality(RecordsOf(jobs[j])) = 1

C12_Witness ==
    /\ gpc = "done" /\ runs = 1 /\ Len(jobs) = ComplPerProblem
    /\ \A j \in 1..Len(jobs) : Cardinality(RecordsOf(jobs[j])) = 1
    /\ Len(Lines(gfile)) = Len(jobs)
    /\ RecordAt(2, 1)

(***************************************************************************)
(* The ledger and the work list of a wave.                                 *)
(***************************************************************************)
\* no thread of the wave has written to the file since the scan
NothingWritten == \A j \in 1..Len(jobs) : job[j].pc \notin {"w1", "w2", "done"}

\* the jobs list holds key k exactly once
DispatchedOnce(k) == Cardinality({j \in 1..Len(jobs) : jobs[j] = k}) = 1

\* C13: the scan of the output file never stops on a line it cannot parse; the
\* ledger is built before anything is scheduled and is the key set of the
\* parseable lines of the file as the wave found it; the work list is exactly
\* the input tasks whose key is not in the ledger.
C13_LedgerIsParseableKeys ==
    /\ gpc # "scan_raised"
    /\ gpc = "scan" => jobs = <<>>
    /\ (gpc \in {"pool", "aborting"} /\ NothingWritten) =>
          ledger = {k \in Keys : RecordsOf(k) # {}}
    /\ gpc \in {"pool", "aborting", "between", "done", "raised"} =>
          /\ \A k \in Keys : IF k \in ledger
                             THEN \A j \in 1..Len(jobs) : jobs[j] # k
                             ELSE DispatchedOnce(k)
          /\ \A j \in 1..Len(jobs) : jobs[j] \in Keys

(***************************************************************************)
(* The result logs are append-only.                                        *)
(***************************************************************************)
IsPrefix(a, b) == Len(a) <= Len(b) /\ SubSeq(b, 1, Len(a)) = a

\* C14: a record that is in a result log stays there unchanged: no step (a later
\* task's write, a resumed generation run, the verification batch run again onto
\* the same output file) removes, truncates or rewrites what the log holds.
C14_RecordsStay ==
    [][/\ IsPrefix(out_f, out_f')
       /\ \A w \in 1..MaxWaves : IsPrefix(files[w], files'[w])]_vars

(***************************************************************************)
(* Properties of the loaders.                                              *)
(***************************************************************************)
\* a line the task input format does not allow
Malformed(kind) == kind \in {"bad_json", "no_id"}

\* the well-formed tasks among the first n lines, in order
RECURSIVE WellFormedTasks(_)
WellFormedTasks(n) ==
    IF n = 0 THEN <<>>
    ELSE IF infile[n] = "blank" \/ Malformed(infile[n]) THEN WellFormedTasks(n - 1)
    ELSE Append(WellFormedTasks(n - 1), infile[n])

\* the tasks a list holds
TasksIn(l) == {l[n] : n \in 1..Len(l)}

\* C15: in both loaders a malformed line (no valid JSON, or no problem_id) never
\* stops the load and is left out, and every well-formed task of the file is
\* loaded: the loader returns, and what it returns are the well-formed tasks.
C15_MalformedLinesSkipped ==
    /\ lpc # "raised"
    /\ lpc = "returned" =>
          /\ TasksIn(items) = TasksIn(WellFormedTasks(Len(infile)))
          /\ loader = "load_jsonl" => items = WellFormedTasks(Len(infile))

(***************************************************************************)
(* One isolated process at a time.                                         *)
(***************************************************************************)
\* C16: when run_unittest returns, the process it started is gone (terminated and
\* joined, or already ended); no isolated process exists outside a call of
\* run_unittest, and a call starts at most one: a new process is started only
\* when the one before it is gone.
C16_GoneWhenReturned ==
    /\ spc = "ret" => ~is_alive
    /\ (spc = "ret" /\ Spawned) => cpc = "exited"
    /\ (spc = "ret" /\ termSent) => cend # "none"
    /\ vpc # "run" => ~is_alive
    /\ spawned <= 1

C16_Witness == /\ vpc = "run" /\ spc = "join" /\ is_alive
               /\ Len(out_f) = 1 /\ out_f[1].category = "timeout"

(***************************************************************************)
(* The result message against the timeout.                                 *)
(***************************************************************************)
\* the outcome of the tests is in the channel, its send was called in time
OutcomeSentInTime ==
    /\ pipe # <<>>
    /\ pipe[1].intime
    /\ pipe[1].msg.category \in {"success", "test_failure"}

\* C17: when the worker has run the tests and called send for the outcome before
\* the deadline, run_unittest returns with that outcome's category, whether the
\* message fits the channel's buffer or not: it never returns with the outcome
\* left in the channel and another category in the record.
C17_OutcomeBeatsTimeout ==
    (Returned /\ Spawned /\ OutcomeSentInTime) => result.category = pipe[1].msg.category

(***************************************************************************)
(* The result channel.                                                     *)
(***************************************************************************)
\* the record came out of the channel
FromMessage == result.category \in {"success", "test_failure", "execution_error"}

\* C18: the worker puts at most one message into the channel per task, on every
\* path (outcome of the tests, Exception raised by exec, Exception raised while
\* the outcome is built or sent); a worker that ends by itself has closed its end,
\* and sends nothing after that; once the supervisor has taken the timeout branch
\* it never reads the channel: the record is the timeout record and a message
\* in the channel stays there.
C18_OneMessageNeverReadAfterTimeout ==
    /\ nsent <= 1
    /\ Len(pipe) + (IF FromMessage THEN 1 ELSE 0) = nsent
    /\ (cpc = "exited" /\ cend \notin {"died", "terminated"}) => cend = "closed"
    /\ cend = "closed" => (cpc = "exited" /\ ~ENABLED (ChildSendOutcome \/ ChildExecRaises
                                                          \/ ChildSendRaises))
    /\ termSent => ~ENABLED (SupRecv \/ SupRecvBlocks)
    /\ (termSent /\ spc = "ret") => (result = TimeoutRecord /\ Len(pipe) = nsent)

C18_Witness == /\ Returned /\ result = TimeoutRecord /\ cfault = "outcome"
               /\ pipe # <<>> /\ pipe[1].whole /\ pipe[1].msg = ErrorMessage

(***************************************************************************)
(* Failed generations on resume.                                           *)
(***************************************************************************)
\* the record at line n of the output file is that of a failed generation
FailedRecord(n) == \/ Lines(gfile)[n][1].tag = "api_call_failure"
                   \/ Lines(gfile)[n][1].gs = ""

\* the keys with a parseable record of a failed generation in the output file
FailedKeys == {k \in Keys : \E n \in RecordsOf(k) : FailedRecord(n)}

\* job j has not reached its append
NotYetWriting(j) == job[j].pc \in {"pending", "api", "lock", "raised", "cancelled"}

\* C19: a parseable record counts as completed whatever it holds: a task with a
\* parseable record in the output file (also one tagged api_call_failure, or
\* with the empty generated_solution of a swallowed API error) is never in the
\* work list of a later run and never runs again.
C19_FailedNeverRetried ==
    /\ \A j \in 1..Len(jobs) : NotYetWriting(j) => RecordsOf(jobs[j]) = {}
    /\ (gpc \in {"pool", "aborting"} /\ NothingWritten) =>
          /\ FailedKeys \subseteq ledger
          /\ \A j \in 1..Len(jobs) : jobs[j] \notin FailedKeys

C19_Witness ==
    /\ runs = 2 /\ gpc = "pool" /\ NothingWritten
    /\ \E k \in FailedKeys : \E n \in RecordsOf(k) : Lines(gfile)[n][1].tag = "api_call_failure"
    /\ Len(jobs) = 1 /\ job[1].pc = "pending"

(***************************************************************************)
(* The waves of a generation run.                                          *)
(***************************************************************************)
\* C20: waves never overlap: every busy thread belongs to the wave main is in,
\* no thread is busy when main is between two waves or has left the last one,
\* a thread appends to the file of its own wave, every record part in a file
\* was generated by the wave of that file, and at most num_threads tasks are in
\* flight.
C20_WavesNeverOverlap ==
    /\ \A j \in 1..Len(jobs) : Unfinished(j) => job[j].wave = wave
    /\ gpc \in {"between", "scan", "done", "raised"} => NumRunning = 0
    /\ \A j \in 1..Len(jobs) : job[j].pc \in {"w1", "w2"} => job[j].file = job[j].wave
    /\ \A w \in 1..MaxWaves : \A n \in 1..Len(files[w]) : files[w][n].wave = w
    /\ NumRunning <= NumThreads

C20_Witness ==
    /\ wave = 2 /\ gpc = "pool" /\ NumRunning = NumThreads
    /\ Len(Lines(files[1])) = ComplPerProblem
    /\ \A n \in 1..Len(Lines(files[1])) : Parses(Lines(files[1])[n])
    /\ files[2] # <<>>

====
